---- MODULE Spec2Model ----
(***************************************************************************)
(* Model of charms/maas-region/reactive/region.py: the snap operating-mode *)
(* resolver (get_snap_mode), the argument builder (get_snap_args), the     *)
(* advisory file lock (lock_snap_context) and the reactive handlers that   *)
(* run the external "maas" tool under that lock.                           *)
(***************************************************************************)
EXTENDS Integers, Sequences, FiniteSets, TLC

VARIABLES
    snap,        \* lines printed by "maas config --show ... --parsable"
    secretFile,  \* /var/snap/maas/current/var/lib/maas/secret
    charmUrl,    \* hookenv.config('maas-url')
    db,          \* the pgsql relation endpoint as the framework sees it
    flags,       \* reactive flags of the unit
    holders,     \* processes holding the lock on /tmp/maas-charm-lock
    pc,          \* position of every process
    handler,     \* handler the region charm process is running
    loc,         \* locals of the running handler (result of get_snap_args)
    lastCmd,     \* last external command that was executed
    trail,       \* resolutions made by the function-level specification
    rpc          \* the rpc relation: the unit's address, what the peer got

vars == <<snap, secretFile, charmUrl, db, flags, holders, pc, handler, loc,
          lastCmd, trail, rpc>>

----------------------------------------------------------------------------
(* Bounds *)

NumPeers == 1
MaxTrail == 2

----------------------------------------------------------------------------
(* Values *)

\* Python's None, where a string is expected
None == "<None>"

Modes == {"none", "rack", "region", "region+rack"}

DefaultUrl == "http://localhost:5240/MAAS"
CustomUrl == "http://maas.example:5240/MAAS"
StoreUrl == "http://10.0.0.5:5240/MAAS"

\* one line of the tool's output: key, whether an '=' follows, the rest
Line(k, v) == [key |-> k, sep |-> TRUE, val |-> v]
Bare(k) == [key |-> k, sep |-> FALSE, val |-> ""]

\* a database connection string; none = TRUE stands for None
NoneConn == [none |-> TRUE, host |-> None, dbname |-> None, user |-> None,
             password |-> None]
Conn1 == [none |-> FALSE, host |-> "db1", dbname |-> "maasdb",
          user |-> "maas", password |-> "pw"]
Conn2 == [none |-> FALSE, host |-> "db2", dbname |-> "maasdb2",
          user |-> "maas2", password |-> "pw2"]

\* the endpoint handle passed as pgsql; none = TRUE stands for None
NoneHandle == [none |-> TRUE, master |-> NoneConn]
Handle(c) == [none |-> FALSE, master |-> c]

\* the secret file: absent, or a body surrounded by optional whitespace
NoFile == [exists |-> FALSE, pad |-> FALSE, body |-> ""]
File(p, b) == [exists |-> TRUE, pad |-> p, body |-> b]

\* hookenv.unit_private_ip()
UnitIps == {"10.0.0.7", "192.168.1.2"}
InitIps == {"10.0.0.7"}

\* the rpc endpoint before set_connection_info was called
NoRpc(ip) == [joined |-> FALSE, ip |-> ip, maas_url |-> None,
              secret |-> None]

Ok(v) == [err |-> None, val |-> v]
Raise(e) == [err |-> e, val |-> None]

----------------------------------------------------------------------------
(* get_maas_secret *)

get_maas_secret(file) ==
    IF ~file.exists THEN Raise("FileNotFoundError")
    ELSE LET secret == file.body    \* fp.read().strip()
         IN IF secret = "" THEN Ok(None) ELSE Ok(secret)

(* get_snap_config_value *)

\* index of the first line "key=..." of the output, 0 when there is none
FirstMatch(lines, key) ==
    LET idx == {i \in 1..Len(lines) : lines[i].sep /\ lines[i].key = key}
    IN IF idx = {} THEN 0 ELSE CHOOSE i \in idx : \A j \in idx : i <= j

\* the entry appended to res for one key
ConfigEntry(lines, file, key) ==
    LET i == FirstMatch(lines, key)
    IN IF i # 0 THEN Ok(lines[i].val)
       ELSE IF key = "secret" THEN get_maas_secret(file)
       ELSE Ok(None)

get_snap_config_value(lines, file, keys) ==
    LET ent == [i \in 1..Len(keys) |-> ConfigEntry(lines, file, keys[i])]
        bad == {i \in 1..Len(keys) : ent[i].err # None}
        res == [i \in 1..Len(keys) |-> ent[i].val]
    IN IF bad # {}
       THEN Raise(ent[CHOOSE i \in bad : \A j \in bad : i <= j].err)
       ELSE IF Len(res) = 1 THEN Ok(res[1]) ELSE Ok(res)

----------------------------------------------------------------------------
(* get_snap_mode *)

\* deactivation that forgets the rack role of region+rack
ResolveModeDropsRack(mode, current_mode) ==
    IF mode = "none" THEN
        IF current_mode = "rack" THEN Ok("rack")
        ELSE IF current_mode \in {"none", "region", "region+rack"}
        THEN Ok("none")
        ELSE Raise("ValueError")
    ELSE IF mode = "region" THEN
        IF current_mode \in {"none", "region"} THEN Ok("region")
        ELSE IF current_mode \in {"rack", "region+rack"}
        THEN Ok("region+rack")
        ELSE Raise("ValueError")
    ELSE Raise("ValueError")

\* resolution that treats an unrecognized current mode as none
ResolveModeDefaulting(mode, current_mode) ==
    IF mode = "none" THEN
        IF current_mode \in {"rack", "region+rack"} THEN Ok("rack")
        ELSE Ok("none")
    ELSE IF mode = "region" THEN
        IF current_mode \in {"rack", "region+rack"} THEN Ok("region+rack")
        ELSE Ok("region")
    ELSE Raise("ValueError")

\* activation that replaces the rack role by the region role
ResolveModeReplaces(mode, current_mode) ==
    IF mode = "none" THEN
        IF current_mode \in {"none", "region"} THEN Ok("none")
        ELSE IF current_mode \in {"rack", "region+rack"} THEN Ok("rack")
        ELSE Raise("ValueError")
    ELSE IF mode = "region" THEN
        IF current_mode \in {"none", "region", "rack"} THEN Ok("region")
        ELSE IF current_mode = "region+rack" THEN Ok("region+rack")
        ELSE Raise("ValueError")
    ELSE Raise("ValueError")

\* activation that turns the rack role on when no role was on
ResolveModeTakesRack(mode, current_mode) ==
    IF mode = "none" THEN
        IF current_mode \in {"none", "region"} THEN Ok("none")
        ELSE IF current_mode \in {"rack", "region+rack"} THEN Ok("rack")
        ELSE Raise("ValueError")
    ELSE IF mode = "region" THEN
        IF current_mode = "region" THEN Ok("region")
        ELSE IF current_mode \in {"none", "rack", "region+rack"}
        THEN Ok("region+rack")
        ELSE Raise("ValueError")
    ELSE Raise("ValueError")

ResolveMode(mode, current_mode) ==
    IF mode = "none" THEN
        IF current_mode = "none" THEN Ok("none")
        ELSE IF current_mode = "rack" THEN Ok("rack")
        ELSE IF current_mode = "region" THEN Ok("none")
        ELSE IF current_mode = "region+rack" THEN Ok("rack")
        ELSE Raise("ValueError")
    ELSE IF mode = "region" THEN
        IF current_mode = "none" THEN Ok("region")
        ELSE IF current_mode = "rack" THEN Ok("region+rack")
        ELSE IF current_mode = "region" THEN Ok("region")
        ELSE IF current_mode = "region+rack" THEN Ok("region+rack")
        ELSE Raise("ValueError")
    ELSE Raise("ValueError")

get_snap_mode(mode, lines, file) ==
    LET current_mode == get_snap_config_value(lines, file, <<"mode">>)
    IN IF current_mode.err # None THEN Raise(current_mode.err)
       ELSE ResolveMode(mode, current_mode.val)

(* get_maas_url *)

get_maas_url(url) ==
    IF url # "" /\ url # None THEN url ELSE DefaultUrl

----------------------------------------------------------------------------
(* get_snap_args *)

\* what a call leaves behind: the exception or the returned list, with the
\* values of its locals when it ended
Result(e, a, cur, sm, rd) ==
    [err |-> e, args |-> a, current_mode |-> cur, set_mode |-> sm,
     readDb |-> rd]

\* the test that guards the database branch
DbBranchRegionOnly(set_mode) == set_mode = "region"
DbBranchNotNone(set_mode) == set_mode # "none"
DbBranch(set_mode) == set_mode # "none" /\ set_mode # "rack"

\* the test that guards the secret branch
RackBranchRackOnly(set_mode) == set_mode = "rack"
RackBranch(set_mode) == set_mode = "region+rack" \/ set_mode = "rack"

\* pgsql.master and the four subscripts of conn_str
ConnFieldsLenient(pgsql) ==
    IF pgsql.none \/ pgsql.master.none
    THEN Ok(<<None, None, None, None>>)
    ELSE Ok(<<pgsql.master.host, pgsql.master.dbname, pgsql.master.user,
              pgsql.master.password>>)
ConnFields(pgsql) ==
    IF pgsql.none THEN Raise("AttributeError")
    ELSE IF pgsql.master.none THEN Raise("TypeError")
    ELSE Ok(<<pgsql.master.host, pgsql.master.dbname, pgsql.master.user,
              pgsql.master.password>>)

\* the tokens the database branch adds
DbArgs(f, url) ==
    <<"--database-host", f[1], "--database-name", f[2],
      "--database-user", f[3], "--database-pass", f[4],
      "--maas-url", get_maas_url(url)>>

\* the URL tokens the secret branch adds
RackUrlArgsAlways(maas_url_set, maas_url) == <<"--maas-url", maas_url>>
RackUrlArgs(maas_url_set, maas_url) ==
    IF ~maas_url_set THEN <<"--maas-url", maas_url>> ELSE <<>>

get_snap_args(mode, pgsql, lines, file, url) ==
    LET cur == get_snap_config_value(lines, file, <<"mode">>)
        r == get_snap_mode(mode, lines, file)
    IN IF r.err # None
       THEN Result(r.err, <<>>, cur.val, None, FALSE)
       ELSE
       LET set_mode == r.val
           args0 == <<"--mode", set_mode>>
           f == ConnFields(pgsql)
       IN IF DbBranch(set_mode) /\ f.err # None
          THEN Result(f.err, args0, cur.val, set_mode, ~pgsql.none)
          ELSE
          LET maas_url_set == DbBranch(set_mode)
              args1 == IF DbBranch(set_mode)
                       THEN args0 \o DbArgs(f.val, url) ELSE args0
          IN IF ~RackBranch(set_mode)
             THEN Result(None, args1, cur.val, set_mode, maas_url_set)
             ELSE
             LET both == get_snap_config_value(lines, file,
                                               <<"secret", "maas_url">>)
                 again == get_snap_config_value(lines, file, <<"secret">>)
             IN IF both.err # None
                THEN Result(both.err, args1, cur.val, set_mode, maas_url_set)
                ELSE
                LET args2 == args1 \o RackUrlArgs(maas_url_set, both.val[2])
                IN IF again.err # None
                   THEN Result(again.err, args2 \o <<"--secret">>, cur.val,
                               set_mode, maas_url_set)
                   ELSE Result(None, args2 \o <<"--secret", again.val>>,
                               cur.val, set_mode, maas_url_set)

----------------------------------------------------------------------------
(* The external tool: "maas config" / "maas init" applied to the snap *)

CurrentMode(lines) ==
    LET i == FirstMatch(lines, "mode") IN IF i = 0 THEN None ELSE lines[i].val

SetKey(lines, k, v) ==
    LET i == FirstMatch(lines, k)
    IN IF i = 0 THEN Append(lines, Line(k, v))
       ELSE [lines EXCEPT ![i] = Line(k, v)]

HasArg(args, flag) == \E i \in 1..(Len(args) - 1) : args[i] = flag

ArgValue(args, flag) ==
    args[1 + CHOOSE i \in 1..(Len(args) - 1) :
               /\ args[i] = flag
               /\ \A j \in 1..(Len(args) - 1) : args[j] = flag => i <= j]

ApplyArgs(lines, args) ==
    LET l1 == IF HasArg(args, "--mode")
              THEN SetKey(lines, "mode", ArgValue(args, "--mode"))
              ELSE lines
        l2 == IF HasArg(args, "--maas-url")
              THEN SetKey(l1, "maas_url", ArgValue(args, "--maas-url"))
              ELSE l1
    IN IF HasArg(args, "--secret")
       THEN SetKey(l2, "secret", ArgValue(args, "--secret"))
       ELSE l2

\* what the colocated rack charm does to the mode inside its locked section
ToggleRack(m) ==
    IF m = "none" THEN "rack"
    ELSE IF m = "rack" THEN "none"
    ELSE IF m = "region" THEN "region+rack"
    ELSE IF m = "region+rack" THEN "region"
    ELSE m

----------------------------------------------------------------------------
(* Processes *)

RegionProc == 0
Peers == 1..NumPeers
Procs == {RegionProc} \cup Peers

\* positions between taking the lock and the close of the descriptor
Section == {"locked", "call", "exit"}

NoRun == [mode |-> None, pgsql |-> NoneHandle, called |-> FALSE,
          err |-> None, args |-> <<>>, current_mode |-> None,
          set_mode |-> None, readDb |-> FALSE, ran |-> FALSE,
          outcome |-> None]

NewRun(mode, pgsql) == [NoRun EXCEPT !.mode = mode, !.pgsql = pgsql]

WithResult(l, r) ==
    [l EXCEPT !.called = TRUE, !.err = r.err, !.args = r.args,
              !.current_mode = r.current_mode, !.set_mode = r.set_mode,
              !.readDb = r.readDb]

NoCmd == [prog |-> <<>>, args |-> <<>>]

\* endpoint_from_flag('db.database.available')
endpoint_from_flag(d) ==
    IF d.joined /\ ~d.master.none THEN Handle(d.master) ELSE NoneHandle

\* the sub-command each handler passes to check_call
Prog(h) ==
    IF h = "init_db" THEN <<"maas", "init", "--force", "--skip-admin">>
    ELSE <<"maas", "config">>

----------------------------------------------------------------------------
(* Inputs *)

SnapModes == Modes \cup {"bogus", None}

\* the output of "maas config --show" for a stored mode, secret and URL
Show(m, sec, u) ==
    (IF m = None THEN <<Bare("mode")>> ELSE <<Line("mode", m)>>)
    \o (IF sec = None THEN <<>> ELSE <<Line("secret", sec)>>)
    \o (IF u = None THEN <<>> ELSE <<Line("maas_url", u)>>)

Files == {NoFile, File(TRUE, ""), File(TRUE, "f1l3s3cr3t")}
CharmUrls == {"", DefaultUrl, CustomUrl}
Conns == {NoneConn, Conn1, Conn2}

InitSnaps == {Show(m, sec, StoreUrl) : m \in SnapModes, sec \in {None, "s3cr3t"}}
InitFiles == {NoFile, File(TRUE, "f1l3s3cr3t")}
InitUrls == {"", CustomUrl}

\* outputs with no line for the mode at all, and with the key repeated
OddSnaps == {<<>>, <<Line("secret", "s3cr3t")>>,
             <<Line("mode", "rack"), Line("mode", "region")>>}

FnSnaps == {Show(m, sec, u) : m \in SnapModes, sec \in {None, "s3cr3t"},
                              u \in {None, StoreUrl}} \cup OddSnaps
FnHandles == {NoneHandle} \cup {Handle(c) : c \in Conns}
FnRequests == {"none", "region", "rack"}

----------------------------------------------------------------------------
(* Initial state: the charm is deployed, no relation is joined, the snap is
   installed in whatever mode it was left in *)

Idle ==
    /\ db = [joined |-> FALSE, master |-> NoneConn]
    /\ flags = [init |-> FALSE, changed |-> FALSE, cfgChanged |-> FALSE]
    /\ holders = {}
    /\ pc = [p \in Procs |-> "idle"]
    /\ handler = "none"
    /\ loc = NoRun
    /\ lastCmd = NoCmd
    /\ trail = <<>>

Init ==
    /\ snap \in InitSnaps
    /\ secretFile \in InitFiles
    /\ charmUrl \in InitUrls
    /\ rpc \in {NoRpc(ip) : ip \in InitIps}
    /\ Idle

----------------------------------------------------------------------------
(* The framework: relation and configuration events between handler runs *)

RelationJoined ==
    /\ pc[RegionProc] = "idle"
    /\ ~db.joined
    /\ db' = [db EXCEPT !.joined = TRUE]
    /\ UNCHANGED <<snap, secretFile, charmUrl, flags, holders, pc, handler,
                   loc, lastCmd, trail, rpc>>

MasterChanged(c) ==
    /\ pc[RegionProc] = "idle"
    /\ db.joined
    /\ c # db.master
    /\ db' = [db EXCEPT !.master = c]
    /\ flags' = [flags EXCEPT !.changed = TRUE]
    /\ UNCHANGED <<snap, secretFile, charmUrl, holders, pc, handler, loc,
                   lastCmd, trail, rpc>>

RelationDeparted ==
    /\ pc[RegionProc] = "idle"
    /\ db.joined
    /\ db' = [joined |-> FALSE, master |-> NoneConn]
    /\ flags' = [flags EXCEPT !.changed = (flags.changed \/ ~db.master.none)]
    /\ UNCHANGED <<snap, secretFile, charmUrl, holders, pc, handler, loc,
                   lastCmd, trail, rpc>>

ConfigChanged(u) ==
    /\ pc[RegionProc] = "idle"
    /\ u # charmUrl
    /\ charmUrl' = u
    /\ flags' = [flags EXCEPT !.cfgChanged = TRUE]
    /\ UNCHANGED <<snap, secretFile, db, holders, pc, handler, loc, lastCmd,
                   trail, rpc>>

HookEnd ==
    /\ pc[RegionProc] = "idle"
    /\ flags.cfgChanged
    /\ flags' = [flags EXCEPT !.cfgChanged = FALSE]
    /\ UNCHANGED <<snap, secretFile, charmUrl, db, holders, pc, handler, loc,
                   lastCmd, trail, rpc>>

----------------------------------------------------------------------------
(* lock_snap_context *)

\* fcntl.lockf(fd, LOCK_EX) returns once no other process holds the lock
LockGrantedAlways(p, h) == TRUE
LockGranted(p, h) == h \ {p} = {}

\* os.close(fd) in the finally clause drops the lock on every exit path
AfterCloseOnSuccessOnly(p, h, outcome) ==
    IF outcome = "ok" THEN h \ {p} ELSE h
AfterClose(p, h, outcome) == h \ {p}

Acquire(p) ==
    /\ pc[p] = "wait"
    /\ LockGranted(p, holders)
    /\ holders' = holders \cup {p}
    /\ pc' = [pc EXCEPT ![p] = "locked"]
    /\ UNCHANGED <<snap, secretFile, charmUrl, db, flags, handler, loc,
                   lastCmd, trail, rpc>>

Release(p) ==
    /\ pc[p] = "exit"
    /\ holders' = AfterClose(p, holders,
                             IF p = RegionProc THEN loc.outcome ELSE "ok")
    /\ pc' = [pc EXCEPT ![p] = IF p = RegionProc THEN "after" ELSE "idle"]
    /\ UNCHANGED <<snap, secretFile, charmUrl, db, flags, handler, loc,
                   lastCmd, trail, rpc>>

----------------------------------------------------------------------------
(* The handlers of the region charm *)

Start(h, pgsql, mode) ==
    /\ pc[RegionProc] = "idle"
    /\ handler' = h
    /\ loc' = NewRun(mode, pgsql)
    /\ pc' = [pc EXCEPT ![RegionProc] = "wait"]
    /\ UNCHANGED <<snap, secretFile, charmUrl, db, flags, holders, lastCmd,
                   trail, rpc>>

write_maas_url ==
    /\ flags.init /\ flags.cfgChanged
    /\ Start("write_maas_url", endpoint_from_flag(db), "region")

disable_snap ==
    /\ flags.init /\ ~db.joined
    /\ Start("disable_snap", NoneHandle, "none")

write_db_config ==
    /\ flags.init /\ flags.changed
    /\ Start("write_db_config", Handle(db.master), "region")

init_db ==
    /\ ~db.master.none /\ ~flags.init
    /\ Start("init_db", Handle(db.master), "region")

\* get_snap_config_value runs "maas config --show" anew on every call: what
\* it parses is the live output, not what this charm last wrote
ConfigReadCached(lines, cmd) ==
    IF HasArg(cmd.args, "--mode")
    THEN SetKey(lines, "mode", ArgValue(cmd.args, "--mode"))
    ELSE lines
ConfigRead(lines, cmd) == lines

\* the argument of check_call is evaluated first: an exception raised by
\* get_snap_args leaves the with block before check_call is entered
ArgsFailedIgnored(r) == FALSE
ArgsFailed(r) == r.err # None

BuildArgs ==
    /\ pc[RegionProc] = "locked"
    /\ LET r == get_snap_args(loc.mode, loc.pgsql, ConfigRead(snap, lastCmd),
                              secretFile, charmUrl)
       IN IF ArgsFailed(r)
          THEN /\ loc' = [WithResult(loc, r) EXCEPT !.outcome = "raised"]
               /\ pc' = [pc EXCEPT ![RegionProc] = "exit"]
          ELSE /\ loc' = WithResult(loc, r)
               /\ pc' = [pc EXCEPT ![RegionProc] = "call"]
    /\ UNCHANGED <<snap, secretFile, charmUrl, db, flags, holders, handler,
                   lastCmd, trail, rpc>>

\* check_call: a None in the list makes Popen raise before the tool starts;
\* otherwise the tool runs and exits zero or non-zero
CheckCall(ok) ==
    /\ pc[RegionProc] = "call"
    /\ pc' = [pc EXCEPT ![RegionProc] = "exit"]
    /\ IF \E i \in 1..Len(loc.args) : loc.args[i] = None
       THEN /\ loc' = [loc EXCEPT !.outcome = "TypeError"]
            /\ UNCHANGED <<snap, lastCmd>>
       ELSE /\ lastCmd' = [prog |-> Prog(handler), args |-> loc.args]
            /\ IF ok
               THEN /\ snap' = ApplyArgs(snap, loc.args)
                    /\ loc' = [loc EXCEPT !.ran = TRUE, !.outcome = "ok"]
               ELSE /\ snap' = snap
                    /\ loc' = [loc EXCEPT !.ran = TRUE,
                                          !.outcome = "CalledProcessError"]
    /\ UNCHANGED <<secretFile, charmUrl, db, flags, holders, handler, trail, rpc>>

\* write_db_config clearing maas.snap.init instead of db.master.changed
FlagsAfterSloppy(h, f) ==
    IF h = "disable_snap" THEN [f EXCEPT !.init = FALSE]
    ELSE IF h = "write_db_config" THEN [f EXCEPT !.init = FALSE]
    ELSE IF h = "init_db" THEN [f EXCEPT !.init = TRUE, !.changed = FALSE]
    ELSE f

\* disable_snap without its clear_flag
FlagsAfterKeepsInit(h, f) ==
    IF h = "write_db_config" THEN [f EXCEPT !.changed = FALSE]
    ELSE IF h = "init_db" THEN [f EXCEPT !.init = TRUE, !.changed = FALSE]
    ELSE f

\* the statements after the with block, reached only without an exception
FlagsAfter(h, f) ==
    IF h = "disable_snap" THEN [f EXCEPT !.init = FALSE]
    ELSE IF h = "write_db_config" THEN [f EXCEPT !.changed = FALSE]
    ELSE IF h = "init_db" THEN [f EXCEPT !.init = TRUE, !.changed = FALSE]
    ELSE f

Finish ==
    /\ pc[RegionProc] = "after"
    /\ flags' = IF loc.outcome = "ok" THEN FlagsAfter(handler, flags)
                ELSE flags
    /\ handler' = "none"
    /\ loc' = NoRun
    /\ pc' = [pc EXCEPT ![RegionProc] = "idle"]
    /\ UNCHANGED <<snap, secretFile, charmUrl, db, holders, lastCmd, trail, rpc>>

----------------------------------------------------------------------------
(* rpc_requested *)

is_maas_url_local(maas_url) == maas_url = DefaultUrl

\* 'http://%s:5240/MAAS' % hookenv.unit_private_ip()
PrivateUrl(ip) == "http://" \o ip \o ":5240/MAAS"

\* the URL rpc_requested passes on
PeerUrlUnchecked(url, ip) == get_maas_url(url)
PeerUrl(url, ip) ==
    LET maas_url == get_maas_url(url)
    IN IF is_maas_url_local(maas_url) THEN PrivateUrl(ip) ELSE maas_url

\* the two arguments of rpc.set_connection_info, or the exception raised
\* while they are computed
rpc_connection_info(url, ip, lines, file) ==
    LET secret == get_snap_config_value(lines, file, <<"secret">>)
    IN IF secret.err # None THEN Raise(secret.err)
       ELSE Ok(<<PeerUrl(url, ip), secret.val>>)

RpcJoined ==
    /\ pc[RegionProc] = "idle"
    /\ ~rpc.joined
    /\ rpc' = [rpc EXCEPT !.joined = TRUE]
    /\ UNCHANGED <<snap, secretFile, charmUrl, db, flags, holders, pc,
                   handler, loc, lastCmd, trail>>

\* the handler takes no lock: it goes straight to check_output
rpc_requested ==
    /\ pc[RegionProc] = "idle"
    /\ flags.init /\ rpc.joined
    /\ handler' = "rpc_requested"
    /\ loc' = NoRun
    /\ pc' = [pc EXCEPT ![RegionProc] = "show"]
    /\ UNCHANGED <<snap, secretFile, charmUrl, db, flags, holders, lastCmd,
                   trail, rpc>>

RpcSend ==
    /\ pc[RegionProc] = "show"
    /\ LET r == rpc_connection_info(charmUrl, rpc.ip,
                                    ConfigRead(snap, lastCmd), secretFile)
       IN IF r.err # None
          THEN /\ loc' = [loc EXCEPT !.outcome = "raised"]
               /\ rpc' = rpc
          ELSE /\ loc' = [loc EXCEPT !.outcome = "ok"]
               /\ rpc' = [rpc EXCEPT !.maas_url = r.val[1],
                                     !.secret = r.val[2]]
    /\ pc' = [pc EXCEPT ![RegionProc] = "after"]
    /\ UNCHANGED <<snap, secretFile, charmUrl, db, flags, holders, handler,
                   lastCmd, trail>>

----------------------------------------------------------------------------
(* The colocated rack charm, using the same lock file *)

PeerStart(p) ==
    /\ p \in Peers
    /\ pc[p] = "idle"
    /\ pc' = [pc EXCEPT ![p] = "wait"]
    /\ UNCHANGED <<snap, secretFile, charmUrl, db, flags, holders, handler,
                   loc, lastCmd, trail, rpc>>

PeerConfig(p) ==
    /\ p \in Peers
    /\ pc[p] = "locked"
    /\ snap' = IF CurrentMode(snap) \in Modes
               THEN SetKey(snap, "mode", ToggleRack(CurrentMode(snap)))
               ELSE snap
    /\ pc' = [pc EXCEPT ![p] = "exit"]
    /\ UNCHANGED <<secretFile, charmUrl, db, flags, holders, handler, loc,
                   lastCmd, trail, rpc>>

----------------------------------------------------------------------------
Next ==
    \/ RelationJoined
    \/ \E c \in {NoneConn, Conn1} : MasterChanged(c)
    \/ RelationDeparted
    \/ \E u \in InitUrls : ConfigChanged(u)
    \/ HookEnd
    \/ write_maas_url
    \/ disable_snap
    \/ write_db_config
    \/ init_db
    \/ \E p \in Procs : Acquire(p)
    \/ BuildArgs
    \/ \E ok \in BOOLEAN : CheckCall(ok)
    \/ \E p \in Procs : Release(p)
    \/ Finish
    \/ \E p \in Peers : PeerStart(p)
    \/ \E p \in Peers : PeerConfig(p)
    \/ RpcJoined
    \/ rpc_requested
    \/ RpcSend

Spec == Init /\ [][Next]_vars

\* the region charm alone on the machine: no other process runs the tool
NextSolo ==
    \/ RelationJoined
    \/ \E c \in {NoneConn, Conn1} : MasterChanged(c)
    \/ RelationDeparted
    \/ \E u \in InitUrls : ConfigChanged(u)
    \/ HookEnd
    \/ write_maas_url
    \/ disable_snap
    \/ write_db_config
    \/ init_db
    \/ Acquire(RegionProc)
    \/ BuildArgs
    \/ \E ok \in BOOLEAN : CheckCall(ok)
    \/ Release(RegionProc)
    \/ Finish
    \/ RpcJoined
    \/ rpc_requested
    \/ RpcSend

SpecSolo == Init /\ [][NextSolo]_vars

\* every step inside a locked section ends (the external command
\* terminates), and a process blocked in lockf is woken when the lock is
\* free often enough (fair scheduling of the waiters)
Fairness ==
    /\ WF_vars(BuildArgs)
    /\ WF_vars(\E ok \in BOOLEAN : CheckCall(ok))
    /\ \A p \in Procs : WF_vars(Release(p))
    /\ \A p \in Peers : WF_vars(PeerConfig(p))
    /\ \A p \in Procs : SF_vars(Acquire(p))

\* the handlers and the peers that take the lock, from a snap left in
\* region mode or in an unrecognized one, with no secret on the machine
LiveInit ==
    /\ snap \in {Show(m, None, StoreUrl) : m \in {"region", "bogus"}}
    /\ secretFile = NoFile
    /\ charmUrl = ""
    /\ rpc \in {NoRpc(ip) : ip \in InitIps}
    /\ Idle

NextLive ==
    \/ RelationJoined
    \/ \E c \in {NoneConn, Conn1} : MasterChanged(c)
    \/ RelationDeparted
    \/ \E u \in InitUrls : ConfigChanged(u)
    \/ HookEnd
    \/ write_maas_url
    \/ disable_snap
    \/ write_db_config
    \/ init_db
    \/ \E p \in Procs : Acquire(p)
    \/ BuildArgs
    \/ \E ok \in BOOLEAN : CheckCall(ok)
    \/ \E p \in Procs : Release(p)
    \/ Finish
    \/ \E p \in Peers : PeerStart(p)
    \/ \E p \in Peers : PeerConfig(p)

SpecLive == LiveInit /\ [][NextLive]_vars /\ Fairness

----------------------------------------------------------------------------
(* Function-level specification: the resolver and the builder applied to
   inputs drawn from bounded sets *)

FnInit ==
    /\ snap \in FnSnaps
    /\ secretFile \in Files
    /\ charmUrl \in CharmUrls
    /\ rpc \in {NoRpc(ip) : ip \in UnitIps}
    /\ Idle

\* one call of get_snap_args
FnGetSnapArgs(mode, pgsql) ==
    /\ ~loc.called
    /\ loc' = WithResult(NewRun(mode, pgsql),
                         get_snap_args(mode, pgsql, snap, secretFile,
                                       charmUrl))
    /\ UNCHANGED <<snap, secretFile, charmUrl, db, flags, holders, pc,
                   handler, lastCmd, trail, rpc>>

\* one call of get_snap_mode; the mode it returns becomes the current mode
FnResolve(mode) ==
    /\ Len(trail) < MaxTrail
    /\ LET cur == CurrentMode(snap)
           r == get_snap_mode(mode, snap, secretFile)
       IN /\ trail' = Append(trail, [req |-> mode, cur |-> cur,
                                     err |-> r.err, res |-> r.val])
          /\ snap' = IF r.err = None THEN SetKey(snap, "mode", r.val)
                     ELSE snap
    /\ UNCHANGED <<secretFile, charmUrl, db, flags, holders, pc, handler,
                   loc, lastCmd, rpc>>

\* one computation of the connection info rpc_requested hands over
FnRpcRequested ==
    /\ ~rpc.joined
    /\ LET r == rpc_connection_info(charmUrl, rpc.ip, snap, secretFile)
       IN rpc' = IF r.err # None THEN [rpc EXCEPT !.joined = TRUE]
                 ELSE [rpc EXCEPT !.joined = TRUE, !.maas_url = r.val[1],
                                  !.secret = r.val[2]]
    /\ UNCHANGED <<snap, secretFile, charmUrl, db, flags, holders, pc,
                   handler, loc, lastCmd, trail>>

FnNext ==
    \/ \E m \in FnRequests, h \in FnHandles : FnGetSnapArgs(m, h)
    \/ \E m \in FnRequests : FnResolve(m)
    \/ FnRpcRequested

SpecFn == FnInit /\ [][FnNext]_vars

----------------------------------------------------------------------------
(* Properties *)

RegionModes == {"region", "region+rack"}
RackModes == {"rack", "region+rack"}
Targets == {"none", "region"}

\* the tables of the resolver, by requested target and current mode
ExpectedMode ==
    "none" :> ("none" :> "none" @@ "rack" :> "rack" @@
               "region" :> "none" @@ "region+rack" :> "rack")
    @@
    "region" :> ("none" :> "region" @@ "rack" :> "region+rack" @@
                 "region" :> "region" @@ "region+rack" :> "region+rack")

RackComponent(m) == IF m \in RackModes THEN "rack" ELSE "none"

Returned == loc.called /\ loc.err = None

Positions(args, tok) == {i \in 1..Len(args) : args[i] = tok}

DbTokens == {"--database-host", "--database-name", "--database-user",
             "--database-pass"}

EndsWith(args, pair) ==
    /\ Len(args) >= 2
    /\ SubSeq(args, Len(args) - 1, Len(args)) = pair

\* the secret the configuration store, or else the secret file, reports
StoredSecret ==
    LET i == FirstMatch(snap, "secret")
    IN IF i # 0 THEN snap[i].val
       ELSE IF secretFile.body = "" THEN None ELSE secretFile.body

\* C1: for a recognized current mode the resolver returns the table value
\* for (requested, current), both when called alone and inside get_snap_args
C1_ResolverTable ==
    /\ \A i \in 1..Len(trail) :
          (trail[i].req \in Targets /\ trail[i].cur \in Modes)
          => /\ trail[i].err = None
             /\ trail[i].res = ExpectedMode[trail[i].req][trail[i].cur]
    /\ (loc.called /\ loc.mode \in Targets /\ loc.current_mode \in Modes)
       => loc.set_mode = ExpectedMode[loc.mode][loc.current_mode]

C1_Witness ==
    \E i \in 1..Len(trail) :
       /\ trail[i].req = "none"
       /\ trail[i].cur = "region+rack"
       /\ trail[i].res = "rack"

\* C2: for either target, a current mode outside the four recognized values
\* (a missing mode key reads as None) makes the resolver raise; no mode is
\* returned
C2_UnknownModeFails ==
    /\ \A i \in 1..Len(trail) :
          (trail[i].req \in Targets /\ trail[i].cur \notin Modes)
          => trail[i].err = "ValueError" /\ trail[i].res = None
    /\ (loc.called /\ loc.mode \in Targets /\ loc.current_mode \notin Modes)
       => /\ loc.err = "ValueError"
          /\ loc.set_mode = None
          /\ loc.args = <<>>

C2_Witness ==
    /\ Len(trail) >= 2
    /\ trail[1].req = "region" /\ trail[1].cur = None
    /\ trail[1].err = "ValueError"
    /\ trail[2].req = "none" /\ trail[2].cur = None
    /\ trail[2].err = "ValueError"

\* C3: resolving region and then none on that result gives the rack
\* component of the starting mode
C3_RoundTrip ==
    \A i \in 1..(Len(trail) - 1) :
       (/\ trail[i].req = "region"
        /\ trail[i].cur \in Modes
        /\ trail[i + 1].req = "none")
       => /\ trail[i + 1].cur = trail[i].res
          /\ trail[i + 1].err = None
          /\ trail[i + 1].res = RackComponent(trail[i].cur)

C3_Witness ==
    /\ Len(trail) >= 2
    /\ trail[1].req = "region" /\ trail[1].cur = "rack"
    /\ trail[1].res = "region+rack"
    /\ trail[2].req = "none" /\ trail[2].res = "rack"

\* C4: the connection is read, and the four database pairs follow
\* "--mode <resolved>" in order, exactly when the resolved mode is region or
\* region+rack; otherwise the connection is not read and no database token
\* appears
C4_DatabaseTokens ==
    loc.called =>
       /\ (loc.err = None /\ loc.set_mode \in RegionModes)
          => /\ loc.readDb
             /\ Len(loc.args) >= 10
             /\ SubSeq(loc.args, 1, 10) =
                   <<"--mode", loc.set_mode,
                     "--database-host", loc.pgsql.master.host,
                     "--database-name", loc.pgsql.master.dbname,
                     "--database-user", loc.pgsql.master.user,
                     "--database-pass", loc.pgsql.master.password>>
       /\ (loc.set_mode \notin RegionModes)
          => /\ ~loc.readDb
             /\ \A i \in 1..Len(loc.args) : loc.args[i] \notin DbTokens

C4_Witness ==
    /\ Returned
    /\ loc.set_mode = "region+rack"
    /\ loc.pgsql = Handle(Conn2)
    /\ loc.args[4] = "db2"

\* C5 as stated: "--secret <secret>" ends the list exactly for rack and
\* region+rack, and for none and region the list has neither a --secret nor
\* a --maas-url token
C5_SecretAndUrlOnlyForRack ==
    Returned =>
       /\ EndsWith(loc.args, <<"--secret", StoredSecret>>)
          <=> loc.set_mode \in RackModes
       /\ (loc.set_mode \in {"none", "region"})
          => /\ Positions(loc.args, "--secret") = {}
             /\ Positions(loc.args, "--maas-url") = {}

\* C5 amended: "--secret <secret>" ends the list exactly for rack and
\* region+rack; for none the list has neither a --secret nor a --maas-url
\* token; for region it has no --secret token and ends with --maas-url and
\* the configured URL (or the localhost default)
C5_SecretOnlyForRack ==
    Returned =>
       /\ EndsWith(loc.args, <<"--secret", StoredSecret>>)
          <=> loc.set_mode \in RackModes
       /\ (loc.set_mode \in {"none", "region"})
          => Positions(loc.args, "--secret") = {}
       /\ (loc.set_mode = "none")
          => Positions(loc.args, "--maas-url") = {}
       /\ (loc.set_mode = "region")
          => EndsWith(loc.args, <<"--maas-url", get_maas_url(charmUrl)>>)

C5_Witness ==
    /\ Returned
    /\ loc.set_mode = "region"
    /\ charmUrl = CustomUrl
    /\ loc.args[Len(loc.args)] = CustomUrl

\* C6: a returned list has --maas-url at most once; for region+rack exactly
\* once, with the value of the database branch
C6_UrlOnce ==
    Returned =>
       /\ Cardinality(Positions(loc.args, "--maas-url")) <= 1
       /\ (loc.set_mode = "region+rack")
          => /\ Cardinality(Positions(loc.args, "--maas-url")) = 1
             /\ ArgValue(loc.args, "--maas-url") = get_maas_url(charmUrl)
             /\ Positions(loc.args, "--maas-url") = {11}

C6_Witness ==
    /\ Returned
    /\ loc.set_mode = "region+rack"
    /\ FirstMatch(snap, "maas_url") # 0
    /\ charmUrl = ""
    /\ ArgValue(loc.args, "--maas-url") = DefaultUrl

\* C7: with a resolved mode of region or region+rack and no database
\* connection (handle None, or its master None) get_snap_args raises
C7_MissingDatabaseFails ==
    (/\ loc.called
     /\ loc.set_mode \in RegionModes
     /\ (loc.pgsql.none \/ loc.pgsql.master.none))
    => /\ loc.err \in {"AttributeError", "TypeError"}
       /\ loc.outcome \in {None, "raised"}
       /\ ~loc.ran

C7_Witness ==
    /\ handler = "write_maas_url"
    /\ loc.called
    /\ loc.pgsql.none
    /\ loc.set_mode \in RegionModes
    /\ loc.err = "AttributeError"

\* C8: when get_snap_args raises in a handler, that run executes no
\* external command, and the mode of the snap is what the run read
C8_NoCommandAfterFailure ==
    (loc.called /\ loc.err # None)
    => /\ ~loc.ran
       /\ loc.outcome = "raised"
       /\ pc[RegionProc] \in {"exit", "after"}
       /\ (RegionProc \in holders) => CurrentMode(snap) = loc.current_mode

C8_Witness ==
    /\ handler = "disable_snap"
    /\ pc[RegionProc] = "exit"
    /\ loc.outcome = "raised"
    /\ lastCmd.prog = <<"maas", "init", "--force", "--skip-admin">>

\* C9: at most one process is inside its locked section
C9_MutualExclusion ==
    /\ Cardinality({p \in Procs : pc[p] \in Section}) <= 1
    /\ Cardinality(holders) <= 1

C9_Witness ==
    /\ pc[RegionProc] = "call"
    /\ \E p \in Peers : pc[p] = "wait"

\* C10: a process outside its locked section does not hold the lock,
\* whatever the outcome of the section was
C10_ReleasedOnExit ==
    \A p \in Procs : pc[p] \notin Section => p \notin holders

C10_Witness ==
    /\ pc[RegionProc] = "after"
    /\ loc.outcome = "CalledProcessError"
    /\ RegionProc \notin holders

\* no secret line in the store and no secret in the file
NoSecretAnywhere ==
    /\ FirstMatch(snap, "secret") = 0
    /\ (~secretFile.exists \/ secretFile.body = "")

\* C11: with a resolved mode of rack or region+rack (and a database where
\* one is needed) and no secret discoverable anywhere, get_snap_args returns
\* a list that ends with --secret and a null value
C11_NullSecretEmitted ==
    (/\ loc.called
     /\ loc.set_mode \in RackModes
     /\ (loc.set_mode = "rack" \/ ~(loc.pgsql.none \/ loc.pgsql.master.none))
     /\ NoSecretAnywhere)
    => /\ loc.err = None
       /\ EndsWith(loc.args, <<"--secret", None>>)

\* the URL the configuration store reports
StoredUrl ==
    LET i == FirstMatch(snap, "maas_url")
    IN IF i # 0 THEN snap[i].val ELSE None

\* C12: get_snap_args('none', None) never fails for lack of a database and
\* emits no database token; from none or region it returns exactly
\* --mode none, and from rack or region+rack a returned list is --mode rack,
\* the --maas-url pair and the --secret pair
C12_DeactivateNeedsNoDatabase ==
    (/\ loc.called
     /\ loc.mode = "none"
     /\ loc.pgsql.none
     /\ loc.current_mode \in Modes)
    => /\ loc.err \notin {"AttributeError", "TypeError"}
       /\ ~loc.readDb
       /\ \A i \in 1..Len(loc.args) : loc.args[i] \notin DbTokens
       /\ (loc.current_mode \in {"none", "region"})
          => loc.err = None /\ loc.args = <<"--mode", "none">>
       /\ (loc.current_mode \in RackModes /\ loc.err = None)
          => loc.args = <<"--mode", "rack", "--maas-url", StoredUrl,
                          "--secret", StoredSecret>>

C12_Witness ==
    /\ Returned
    /\ loc.mode = "none"
    /\ loc.pgsql.none
    /\ loc.current_mode = "region+rack"
    /\ loc.args = <<"--mode", "rack", "--maas-url", StoreUrl,
                    "--secret", "s3cr3t">>

\* positions at which a process is running the maas executable
ToolPositions == {"locked", "call", "show"}

\* C13: every run of the maas executable, reads included, is made by a
\* process that holds the lock
C13_ToolOnlyUnderLock ==
    \A p \in Procs : pc[p] \in ToolPositions => p \in holders

\* C14: the mode a handler is about to write was resolved from the mode the
\* snap has now, read under the same hold of the lock; the write leaves the
\* resolved mode in the snap
C14_ModeNeverStale ==
    /\ (pc[RegionProc] = "call")
       => /\ RegionProc \in holders
          /\ loc.current_mode = CurrentMode(snap)
          /\ loc.set_mode = ExpectedMode[loc.mode][CurrentMode(snap)]
    /\ (pc[RegionProc] = "exit" /\ loc.outcome = "ok")
       => /\ RegionProc \in holders
          /\ CurrentMode(snap) = ExpectedMode[loc.mode][loc.current_mode]

C14_Witness ==
    /\ pc[RegionProc] = "call"
    /\ handler = "write_db_config"
    /\ lastCmd.args[2] = "region"
    /\ loc.current_mode = "region+rack"
    /\ loc.set_mode = "region+rack"

\* C15: no step of the handlers changes the rack component of a recognized
\* mode
C15_RackRolePreserved ==
    [][(CurrentMode(snap) \in Modes)
       => /\ CurrentMode(snap') \in Modes
          /\ RackComponent(CurrentMode(snap'))
             = RackComponent(CurrentMode(snap))]_vars

C15_Witness ==
    /\ handler = "disable_snap"
    /\ loc.outcome = "ok"
    /\ loc.current_mode = "region+rack"
    /\ CurrentMode(snap) = "rack"

\* the URL built from each address of the unit
UrlOfIp ==
    "10.0.0.7" :> "http://10.0.0.7:5240/MAAS"
    @@ "192.168.1.2" :> "http://192.168.1.2:5240/MAAS"

\* C16: the URL handed to the peer is the configured URL when that is set
\* and is not the localhost default, else the URL of the unit's private
\* address; it is never the localhost default
C16_PeerNeverGetsLocalhost ==
    (rpc.maas_url # None)
    => /\ rpc.maas_url # DefaultUrl
       /\ rpc.maas_url = IF charmUrl \notin {"", DefaultUrl} THEN charmUrl
                         ELSE UrlOfIp[rpc.ip]

C16_Witness ==
    /\ rpc.joined
    /\ charmUrl = DefaultUrl
    /\ rpc.maas_url = "http://192.168.1.2:5240/MAAS"

\* C17: maas.snap.init changes only in the step that follows a successful
\* command: set by init_db after maas init, cleared by disable_snap after
\* maas config; maas init runs only with the flag clear, maas config only
\* with it set
C17_InitFlagFollowsSuccess ==
    /\ [][(flags'.init # flags.init)
          => /\ pc[RegionProc] = "after"
             /\ loc.ran /\ loc.outcome = "ok"
             /\ lastCmd.prog = Prog(handler)
             /\ IF flags'.init THEN handler = "init_db"
                ELSE handler = "disable_snap"]_vars
    /\ []((pc[RegionProc] = "call"
           => (flags.init <=> Prog(handler) = <<"maas", "config">>))
          /\ (pc[RegionProc] = "show" => flags.init))

C17_Witness ==
    /\ pc[RegionProc] = "idle"
    /\ ~flags.init
    /\ lastCmd.args = <<"--mode", "none">>

\* C18: with the flag set and no handler running the mode has the region
\* role; the step that ends a successful disable_snap leaves the flag clear
\* and the mode none or rack
C18_FlagMeansRegion ==
    /\ []((flags.init /\ pc[RegionProc] = "idle")
          => CurrentMode(snap) \in RegionModes)
    /\ [][(/\ pc[RegionProc] = "after"
           /\ handler = "disable_snap"
           /\ loc.outcome = "ok"
           /\ pc'[RegionProc] = "idle")
          => /\ ~flags'.init
             /\ CurrentMode(snap') \in {"none", "rack"}]_vars

C18_Witness ==
    /\ pc[RegionProc] = "idle"
    /\ flags.init
    /\ lastCmd.args[2] = "region"
    /\ CurrentMode(snap) = "region+rack"

\* C19: a process waiting for the lock eventually holds it
C19_WaiterGetsLock ==
    \A p \in Procs : (pc[p] = "wait") ~> (pc[p] = "locked")

C19_Witness ==
    /\ pc[RegionProc] = "exit"
    /\ loc.outcome = "raised"
    /\ \E p \in Peers : pc[p] = "wait"

====
